---- MODULE Spec2Model ----
(***************************************************************************)
(* The image upload endpoint (supabase/functions/upload-image/index.ts)    *)
(* as a state machine: each invocation of the serve handler advances from  *)
(* one await to the next; the relational tables, the object store and the  *)
(* session validator are the collaborators it calls.                       *)
(*                                                                          *)
(* Strings the handler takes apart or concatenates (file names, entity     *)
(* ids, image types, storage paths) are sequences of one-character         *)
(* strings.  A value that may be absent (a header, a form field) is a set: *)
(* {} when absent, {v} when present.                                       *)
(*                                                                          *)
(* SUPABASE_URL and SUPABASE_SERVICE_ROLE_KEY are taken to be set, as the  *)
(* platform sets them for every deployed function (index.ts:15-18).        *)
(***************************************************************************)
EXTENDS Integers, Sequences, FiniteSets, TLC

\* ------------------------------------------------------------ bounds
\* Invocations that may arrive in one run of Spec.
MaxInvocations == 3
\* Longest of the enumerated file names of SpecV.
MaxNameLen == 3
MaxCalls == 2         \* no save starts once the page has issued this many calls

\* ------------------------------------------------------------ strings
None == {}
Some(v) == {v}
Val(S) == CHOOSE v \in S : TRUE

s_C1 == <<"C", "1">>
s_C2 == <<"C", "2">>
s_B1 == <<"B", "1">>
s_cover == <<"c", "o", "v", "e", "r">>
s_logo == <<"l", "o", "g", "o">>
s_jpg == <<"j", "p", "g">>
s_png == <<"p", "n", "g">>
s_photo == <<"p", "h", "o", "t", "o">>
s_photo_png == s_photo \o <<".">> \o s_png
s_photo_jpg == s_photo \o <<".">> \o s_jpg
s_photo_dot == s_photo \o <<".">>
s_banner == <<"b", "a", "n", "n", "e", "r">>

\* ------------------------------------------------------------ constants of the handler
MaxFileSize == 5 * 1024 * 1024
validBuckets == {"communities", "businesses"}
allowedTypes == {"image/jpeg", "image/png", "image/gif", "image/webp"}

\* ------------------------------------------------------------ pure helpers
\* String.prototype.split(sep): the pieces of s between occurrences of sep.
RECURSIVE SplitFrom(_, _, _, _)
SplitFrom(s, sep, k, cur) ==
  IF k > Len(s) THEN <<cur>>
  ELSE IF s[k] = sep THEN <<cur>> \o SplitFrom(s, sep, k + 1, <<>>)
  ELSE SplitFrom(s, sep, k + 1, Append(cur, s[k]))

split(s, sep) == SplitFrom(s, sep, 1, <<>>)

\* Array.prototype.pop(): the last element.
pop(a) == a[Len(a)]

\* const fileExt = file.name.split(".").pop() || "jpg";
fileExtOf(name) ==
  LET last == pop(split(name, "."))
  IN IF last = <<>> THEN s_jpg ELSE last

\* Mutant: the entity's directory is left out of the path.
fileNameOf_flat(entityId, imageType, name) ==
  imageType \o <<".">> \o fileExtOf(name)

\* const fileName = `${entityId}/${imageType}.${fileExt}`;
fileNameOf(entityId, imageType, name) ==
  entityId \o <<"/">> \o imageType \o <<".">> \o fileExtOf(name)

\* supabase.storage.from(bucket).getPublicUrl(path): the public address of
\* the object at path in bucket (one address per bucket and path).
getPublicUrl(bucket, path) == [bucket |-> bucket, path |-> path]

NoUrl == [bucket |-> "", path |-> <<>>]

\* Mutant: logo_url only for image_type "logo", cover_image_url otherwise.
updateFieldOf_logoOnly(imageType) ==
  IF imageType = s_logo THEN "logo_url" ELSE "cover_image_url"

\* const updateField = imageType === "cover" ? "cover_image_url" : "logo_url";
updateFieldOf(imageType) ==
  IF imageType = s_cover THEN "cover_image_url" ELSE "logo_url"

\* rpc("validate_session"): the user a token belongs to, None for a token
\* that belongs to no session.
validate_session(token) ==
  CASE token = "t1" -> Some("U1")
    [] token = "t2" -> Some("U2")
    [] OTHER -> None

\* ------------------------------------------------------------ requests
\* A File of the multipart body: its name, size in bytes, declared content
\* type and content.
File(name, size, type, bytes) ==
  [name |-> name, size |-> size, type |-> type, bytes |-> bytes]

\* A request: the method, the x-session-token header, whether the body can
\* be read as form data, and the four form fields.
Request(method, token, bodyOk, file, bucket_type, entity_id, image_type) ==
  [method |-> method, token |-> token, bodyOk |-> bodyOk, file |-> file,
   bucket_type |-> bucket_type, entity_id |-> entity_id,
   image_type |-> image_type]

NoRequest == Request("", None, FALSE, None, None, None, None)

\* A well-formed upload request.
Post(token, file, bucket_type, entity_id, image_type) ==
  Request("POST", Some(token), TRUE, Some(file), Some(bucket_type),
          Some(entity_id), Some(image_type))

f_png == File(s_photo_png, 2000000, "image/png", "b1")
f_jpg == File(s_photo_jpg, 2000000, "image/jpeg", "b2")

\* The requests of Spec: the owner's uploads of two files that differ in
\* extension and content, and uploads aimed at a foreign and at a
\* non-existent entity, for both bucket types.
Reqs ==
  { Post("t1", f_png, "communities", s_C1, s_cover),
    Post("t1", f_jpg, "communities", s_C1, s_cover),
    Post("t1", f_png, "businesses", s_B1, s_logo),
    Post("t2", f_png, "communities", s_C1, s_cover),
    Post("t2", f_png, "businesses", s_B1, s_logo),
    Post("t1", f_png, "communities", s_B1, s_cover),
    Post("t1", f_png, "businesses", s_C1, s_logo) }

\* ------------------------------------------------------------ state
Invs == {"A", "B"}

VARIABLES
  pc,           \* pc[i]: where invocation i of the handler stands
  req,          \* req[i]: the request it serves
  userId,       \* userId[i]: the identity validate_session returned
  fileName,     \* fileName[i]: the storage path it derived
  response,     \* response[i]: the Response it returned
  trace,        \* trace[i]: the collaborator calls it made, with their outcomes
  ownerSeen,    \* ownerSeen[i]: the owner field its ownership lookup read
  communities,  \* table communities: id -> row
  businesses,   \* table businesses: id -> row
  storage,      \* object store: bucket -> path -> object
  now,          \* the clock new Date() reads
  started,      \* invocations that have arrived
  last          \* the latest successful upload: its request, what it left,
                \* and how many times in a row that request has succeeded

invVars == <<pc, req, userId, fileName, response, trace, ownerSeen>>
dbVars == <<communities, businesses, storage, now>>

\* The state of a page with an edit dialog (Communities, MyBusinesses) and of
\* the ImageUpload in the dialog.
VARIABLES
  kind,            \* which page: "communities" or "businesses"
  editDialogOpen,  \* editDialogOpen
  editing,         \* editingCommunity / editingBusiness: the id, or None
  nameOk,          \* whether name.trim() is not empty
  pendingFile,     \* pendingImageFile / pendingLogoFile
  pendingFor,      \* the entity that was being edited when pendingFile was selected
  saving,          \* saving
  uploading,       \* uploadingImage / uploadingLogo
  previewUrl,      \* ImageUpload's previewUrl: the file it shows, or None
  reader,          \* the file a FileReader is reading, or None
  alerted,         \* the text of the latest alert(), "" when there was none
  run,             \* the run of handleUpdate... in flight: where it awaits and
                   \* the editing target and pending file of its closure
  calls            \* the edge-function calls the page has issued

serverVars == <<pc, req, userId, fileName, response, trace, ownerSeen,
                communities, businesses, storage, now, started, last>>
pageVars == <<kind, editDialogOpen, editing, nameOk, pendingFile, pendingFor,
              saving, uploading, previewUrl, reader, alerted, run, calls>>
vars == <<serverVars, pageVars>>

NoResponse == [status |-> 0, body |-> [none |-> TRUE]]

\* new Response(JSON.stringify(body), { status, headers })
Json(status, body) == [status |-> status, body |-> body]
ErrorJson(status, message) == Json(status, [error |-> message])

CommunityRow(owner) ==
  [created_by |-> owner, cover_image_url |-> NoUrl, logo_url |-> NoUrl,
   updated_at |-> 0]
BusinessRow(owner) ==
  [owner_id |-> owner, cover_image_url |-> NoUrl, logo_url |-> NoUrl,
   updated_at |-> 0]

InitDb ==
  /\ communities = (s_C1 :> CommunityRow("U1")) @@ (s_C2 :> CommunityRow("U2"))
  /\ businesses = (s_B1 :> BusinessRow("U1"))
  /\ storage = [b \in validBuckets |-> <<>>]
  /\ now = 1

\* No run of a save handler is in flight.
NoRun == [at |-> "idle", editing |-> None, file |-> None]

\* The page as it is mounted: the dialog closed, nothing selected.
PageMounted ==
  /\ editDialogOpen = FALSE
  /\ editing = None
  /\ nameOk = FALSE
  /\ pendingFile = None
  /\ pendingFor = None
  /\ saving = FALSE
  /\ uploading = FALSE
  /\ previewUrl = None
  /\ reader = None
  /\ alerted = ""
  /\ run = NoRun
  /\ calls = <<>>

InitInv ==
  /\ pc = [i \in Invs |-> "idle"]
  /\ req = [i \in Invs |-> NoRequest]
  /\ userId = [i \in Invs |-> ""]
  /\ fileName = [i \in Invs |-> <<>>]
  /\ response = [i \in Invs |-> NoResponse]
  /\ trace = [i \in Invs |-> <<>>]
  /\ ownerSeen = [i \in Invs |-> None]

Init ==
  /\ InitInv
  /\ InitDb
  /\ started = 0
  /\ last = None
  /\ kind = "communities"
  /\ PageMounted

\* ------------------------------------------------------------ the handler's checks
\* !sessionToken: the header is absent or empty.
noSessionToken(r) == r.token = None \/ r.token = Some("")

\* Mutant: only an absent field counts as missing, an empty one does not.
fieldsMissing_absentOnly(r) ==
  r.file = None \/ r.bucket_type = None \/ r.entity_id = None \/ r.image_type = None

\* !file || !bucketType || !entityId || !imageType
\* (a File is truthy whatever its size; a string is falsy when empty).
fieldsMissing(r) ==
  \/ r.file = None
  \/ r.bucket_type = None \/ r.bucket_type = Some("")
  \/ r.entity_id = None \/ r.entity_id = Some(<<>>)
  \/ r.image_type = None \/ r.image_type = Some(<<>>)

\* Mutant: one more bucket is let through.
invalidBucket_avatars(bucketType) ==
  bucketType \notin validBuckets \cup {"avatars"}

\* !validBuckets.includes(bucketType)
invalidBucket(bucketType) == bucketType \notin validBuckets

\* Mutant: the limit itself is rejected too.
fileTooLarge_atLimit(file) == file.size >= MaxFileSize

\* file.size > 5 * 1024 * 1024
fileTooLarge(file) == file.size > MaxFileSize

\* Mutant: any image/ type is let through.
typeNotAllowed_anyImage(file) ==
  file.type \notin allowedTypes \cup {"image/svg+xml"}

\* !allowedTypes.includes(file.type)
typeNotAllowed(file) == file.type \notin allowedTypes

\* Mutant: the content type is checked before the size.
validation_typeFirst(r) ==
  IF fieldsMissing(r)
    THEN Some(ErrorJson(400, "File, bucket_type, entity_id, and image_type are required"))
  ELSE IF invalidBucket(Val(r.bucket_type))
    THEN Some(ErrorJson(400, "Invalid bucket type"))
  ELSE IF typeNotAllowed(Val(r.file))
    THEN Some(ErrorJson(400, "Only JPEG, PNG, GIF, and WebP images are allowed"))
  ELSE IF fileTooLarge(Val(r.file))
    THEN Some(ErrorJson(400, "File must be less than 5MB"))
  ELSE None

\* The response of the checks between formData() and the ownership lookup,
\* None when the request passes them all.
validation(r) ==
  IF fieldsMissing(r)
    THEN Some(ErrorJson(400, "File, bucket_type, entity_id, and image_type are required"))
  ELSE IF invalidBucket(Val(r.bucket_type))
    THEN Some(ErrorJson(400, "Invalid bucket type"))
  ELSE IF fileTooLarge(Val(r.file))
    THEN Some(ErrorJson(400, "File must be less than 5MB"))
  ELSE IF typeNotAllowed(Val(r.file))
    THEN Some(ErrorJson(400, "Only JPEG, PNG, GIF, and WebP images are allowed"))
  ELSE None

\* The table a bucket type names, and the owner field of its rows.
tableOf(bucketType) ==
  IF bucketType = "communities" THEN communities ELSE businesses

ownerOf(bucketType, row) ==
  IF bucketType = "communities" THEN row.created_by ELSE row.owner_id

\* .from(table).select(owner).eq("id", entityId).single(): the row, or
\* None when the query fails or matches no row.
single(bucketType, entityId, queryError) ==
  IF queryError \/ entityId \notin DOMAIN tableOf(bucketType)
    THEN None
    ELSE Some(tableOf(bucketType)[entityId])

\* Mutant: the owner field is never compared with the caller.
ownershipCheck_anyCaller(bucketType, found, user) ==
  IF found = None
    THEN IF bucketType = "communities"
           THEN Some(ErrorJson(403, "Not authorized to upload images for this community"))
           ELSE Some(ErrorJson(403, "Not authorized to upload images for this business"))
    ELSE None

\* Mutant: a missing entity is reported as such.
ownershipCheck_notFound(bucketType, found, user) ==
  IF found = None THEN Some(ErrorJson(404, "Not found"))
  ELSE IF ownerOf(bucketType, Val(found)) # user
    THEN IF bucketType = "communities"
           THEN Some(ErrorJson(403, "Not authorized to upload images for this community"))
           ELSE Some(ErrorJson(403, "Not authorized to upload images for this business"))
  ELSE None

\* if (communityError || !community || community.created_by !== userId)
\* if (businessError || !business || business.owner_id !== userId)
\* with the response each returns: None when the caller owns the entity.
ownershipCheck(bucketType, found, user) ==
  IF found = None \/ ownerOf(bucketType, Val(found)) # user
    THEN IF bucketType = "communities"
           THEN Some(ErrorJson(403, "Not authorized to upload images for this community"))
           ELSE Some(ErrorJson(403, "Not authorized to upload images for this business"))
    ELSE None

\* Mutant: an object that exists is kept and the upload is stored beside
\* it as a new version.
upload_versioned(objects, path, file) ==
  LET to == IF path \in DOMAIN objects
              THEN path \o <<"~", ToString(Cardinality(DOMAIN objects))>>
              ELSE path
  IN (to :> [bytes |-> file.bytes, contentType |-> file.type]) @@ objects

\* Mutant: no upsert; an object that exists is kept (first writer wins).
upload_keepFirst(objects, path, file) ==
  IF path \in DOMAIN objects THEN objects
  ELSE (path :> [bytes |-> file.bytes, contentType |-> file.type]) @@ objects

\* storage.from(bucket).upload(path, buffer, {contentType, upsert: true}):
\* the bucket's objects afterwards.
upload(objects, path, file) ==
  (path :> [bytes |-> file.bytes, contentType |-> file.type]) @@ objects

\* Mutant: the update has no .eq("id", entityId) filter and writes every row.
update_allRows(table, entityId, field, url, at) ==
  [id \in DOMAIN table |->
     IF field = "cover_image_url"
       THEN [table[id] EXCEPT !.cover_image_url = url, !.updated_at = at]
       ELSE [table[id] EXCEPT !.logo_url = url, !.updated_at = at]]

\* .update({[updateField]: url, updated_at}).eq("id", entityId): the table
\* afterwards; a table without the row is left as it is.
update(table, entityId, field, url, at) ==
  IF entityId \notin DOMAIN table THEN table
  ELSE [table EXCEPT ![entityId] =
          IF field = "cover_image_url"
            THEN [@ EXCEPT !.cover_image_url = url, !.updated_at = at]
            ELSE [@ EXCEPT !.logo_url = url, !.updated_at = at]]

\* The image columns of a row, None when the table has no such row.
imageColumns(table, entityId) ==
  IF entityId \notin DOMAIN table THEN None
  ELSE Some([cover_image_url |-> table[entityId].cover_image_url,
             logo_url |-> table[entityId].logo_url])

\* ------------------------------------------------------------ actions
\* return new Response(...): invocation i ends with response resp.
Respond(i, resp) ==
  /\ response' = [response EXCEPT ![i] = resp]
  /\ pc' = [pc EXCEPT ![i] = "done"]

Called(i, what, outcome) ==
  trace' = [trace EXCEPT ![i] = Append(@, <<what, outcome>>)]

\* Whether `last` still describes the store after a step on behalf of
\* request r that changes the store or a table.
keepLast(r) == IF last # None /\ Val(last).req = r THEN last ELSE None

\* What a call inside the try block may throw: an Error with a message, or
\* a value that is no Error.
Thrown ==
  { [isError |-> TRUE, message |-> "fetch failed"],
    [isError |-> FALSE, message |-> ""] }

\* Mutant: no catch block; what is thrown leaves the handler and the caller
\* gets none of the handler's responses.
caught_rethrown(error) == NoResponse

\* catch (error): errorMessage = error instanceof Error ? error.message
\* : "Unknown error occurred"; the 500 response.
caught(error) ==
  ErrorJson(500, IF error.isError THEN error.message
                 ELSE "Unknown error occurred")

\* A request reaches the endpoint and starts an invocation of the handler.
Arrive(i, r) ==
  /\ pc[i] = "idle"
  /\ started < MaxInvocations
  /\ started' = started + 1
  /\ req' = [req EXCEPT ![i] = r]
  /\ pc' = [pc EXCEPT ![i] = "start"]
  /\ UNCHANGED <<userId, fileName, response, trace, ownerSeen, last>>
  /\ UNCHANGED dbVars
  /\ UNCHANGED pageVars

\* Mutant: the body is read and checked before the session token.
Receive_bodyFirst(i) ==
  /\ pc[i] = "start"
  /\ IF req[i].method = "OPTIONS"
       THEN Respond(i, Json(200, [text |-> "ok"]))
     ELSE IF ~req[i].bodyOk
       THEN Respond(i, ErrorJson(500, "Body can not be decoded as form data"))
     ELSE IF validation(req[i]) # None
       THEN Respond(i, Val(validation(req[i])))
     ELSE IF noSessionToken(req[i])
       THEN Respond(i, ErrorJson(401, "No session token provided"))
     ELSE /\ pc' = [pc EXCEPT ![i] = "validate_session"]
          /\ UNCHANGED response
  /\ UNCHANGED <<req, userId, fileName, trace, ownerSeen, started, last>>
  /\ UNCHANGED dbVars
  /\ UNCHANGED pageVars

\* The preflight answer and the session-token presence check.
Receive(i) ==
  /\ pc[i] = "start"
  /\ IF req[i].method = "OPTIONS"
       THEN Respond(i, Json(200, [text |-> "ok"]))
     ELSE IF noSessionToken(req[i])
       THEN Respond(i, ErrorJson(401, "No session token provided"))
     ELSE /\ pc' = [pc EXCEPT ![i] = "validate_session"]
          /\ UNCHANGED response
  /\ UNCHANGED <<req, userId, fileName, trace, ownerSeen, started, last>>
  /\ UNCHANGED dbVars
  /\ UNCHANGED pageVars

\* Mutant: only the call's error is checked, not the identity it returned.
ValidateSession_errorOnly(i) ==
  /\ pc[i] = "validate_session"
  /\ \E sessionError \in BOOLEAN :
       LET data == IF sessionError THEN None
                   ELSE validate_session(Val(req[i].token))
       IN IF sessionError
            THEN /\ Respond(i, ErrorJson(401, "Invalid or expired session"))
                 /\ Called(i, "validate_session", "error")
                 /\ UNCHANGED userId
            ELSE /\ userId' = [userId EXCEPT ![i] =
                                 IF data = None THEN "" ELSE Val(data)]
                 /\ pc' = [pc EXCEPT ![i] = "formData"]
                 /\ Called(i, "validate_session",
                           IF data = None THEN "null" ELSE "ok")
                 /\ UNCHANGED response
  /\ UNCHANGED <<req, fileName, ownerSeen, started, last>>
  /\ UNCHANGED dbVars
  /\ UNCHANGED pageVars

\* await supabase.rpc("validate_session", ...), then the check of its result.
ValidateSession(i) ==
  /\ pc[i] = "validate_session"
  /\ \E sessionError \in BOOLEAN :
       LET data == IF sessionError THEN None
                   ELSE validate_session(Val(req[i].token))
       IN IF data = None
            THEN /\ Respond(i, ErrorJson(401, "Invalid or expired session"))
                 /\ Called(i, "validate_session",
                           IF sessionError THEN "error" ELSE "null")
                 /\ UNCHANGED userId
            ELSE /\ userId' = [userId EXCEPT ![i] = Val(data)]
                 /\ pc' = [pc EXCEPT ![i] = "formData"]
                 /\ Called(i, "validate_session", "ok")
                 /\ UNCHANGED response
  /\ UNCHANGED <<req, fileName, ownerSeen, started, last>>
  /\ UNCHANGED dbVars
  /\ UNCHANGED pageVars

\* await req.formData() (which throws on a body that is no form data: the
\* catch block answers 500), then the field, bucket, size and type checks.
FormData(i) ==
  /\ pc[i] = "formData"
  /\ IF ~req[i].bodyOk
       THEN Respond(i, caught([isError |-> TRUE,
                               message |-> "Body can not be decoded as form data"]))
     ELSE IF validation(req[i]) # None
       THEN Respond(i, Val(validation(req[i])))
     ELSE /\ pc' = [pc EXCEPT ![i] = "lookup"]
          /\ UNCHANGED response
  /\ UNCHANGED <<req, userId, fileName, trace, ownerSeen, started, last>>
  /\ UNCHANGED dbVars
  /\ UNCHANGED pageVars

\* Mutant: the object is written before the caller's ownership is checked.
OwnershipLookup_uploadFirst(i) ==
  /\ pc[i] = "lookup"
  /\ \E queryError \in BOOLEAN :
       LET bucketType == Val(req[i].bucket_type)
           entityId == Val(req[i].entity_id)
           found == single(bucketType, entityId, queryError)
           path == fileNameOf(entityId, Val(req[i].image_type),
                              Val(req[i].file).name)
       IN /\ ownerSeen' = [ownerSeen EXCEPT ![i] =
                 IF found = None THEN None
                 ELSE Some(ownerOf(bucketType, Val(found)))]
          /\ Called(i, "lookup", IF queryError THEN "error"
                                 ELSE IF found = None THEN "none" ELSE "ok")
          /\ storage' = [storage EXCEPT ![bucketType] =
                           upload(@, path, Val(req[i].file))]
          /\ IF ownershipCheck(bucketType, found, userId[i]) # None
               THEN /\ Respond(i, Val(ownershipCheck(bucketType, found, userId[i])))
                    /\ UNCHANGED fileName
               ELSE /\ fileName' = [fileName EXCEPT ![i] = path]
                    /\ pc' = [pc EXCEPT ![i] = "upload"]
                    /\ UNCHANGED response
  /\ UNCHANGED <<req, userId, started, last>>
  /\ UNCHANGED <<communities, businesses, now>>
  /\ UNCHANGED pageVars

\* The ownership lookup in the table bucket_type names, then the path.
OwnershipLookup(i) ==
  /\ pc[i] = "lookup"
  /\ \E queryError \in BOOLEAN :
       LET bucketType == Val(req[i].bucket_type)
           entityId == Val(req[i].entity_id)
           found == single(bucketType, entityId, queryError)
       IN /\ ownerSeen' = [ownerSeen EXCEPT ![i] =
                 IF found = None THEN None
                 ELSE Some(ownerOf(bucketType, Val(found)))]
          /\ Called(i, "lookup", IF queryError THEN "error"
                                 ELSE IF found = None THEN "none" ELSE "ok")
          /\ IF ownershipCheck(bucketType, found, userId[i]) # None
               THEN /\ Respond(i, Val(ownershipCheck(bucketType, found, userId[i])))
                    /\ UNCHANGED fileName
               ELSE /\ fileName' = [fileName EXCEPT ![i] =
                         fileNameOf(entityId, Val(req[i].image_type),
                                    Val(req[i].file).name)]
                    /\ pc' = [pc EXCEPT ![i] = "upload"]
                    /\ UNCHANGED response
  /\ UNCHANGED <<req, userId, started, last>>
  /\ UNCHANGED dbVars
  /\ UNCHANGED pageVars

\* Mutant: a storage write that fails is issued again.
StorageUpload_retry(i) ==
  /\ pc[i] = "upload"
  /\ \E uploadError \in BOOLEAN :
       LET bucketType == Val(req[i].bucket_type)
       IN IF uploadError
            THEN /\ Called(i, "upload", "error")
                 /\ UNCHANGED <<pc, response, storage, last>>
            ELSE /\ storage' = [storage EXCEPT ![bucketType] =
                       upload(@, fileName[i], Val(req[i].file))]
                 /\ pc' = [pc EXCEPT ![i] = "update"]
                 /\ Called(i, "upload", "ok")
                 /\ last' = keepLast(req[i])
                 /\ UNCHANGED response
  /\ UNCHANGED <<req, userId, fileName, ownerSeen, started>>
  /\ UNCHANGED <<communities, businesses, now>>
  /\ UNCHANGED pageVars

\* Mutant: the error of the storage write is not checked.
StorageUpload_ignoreError(i) ==
  /\ pc[i] = "upload"
  /\ \E uploadError \in BOOLEAN :
       LET bucketType == Val(req[i].bucket_type)
       IN /\ storage' = IF uploadError THEN storage
                        ELSE [storage EXCEPT ![bucketType] =
                                upload(@, fileName[i], Val(req[i].file))]
          /\ pc' = [pc EXCEPT ![i] = "update"]
          /\ Called(i, "upload", IF uploadError THEN "error" ELSE "ok")
          /\ last' = IF uploadError THEN last ELSE keepLast(req[i])
          /\ UNCHANGED response
  /\ UNCHANGED <<req, userId, fileName, ownerSeen, started>>
  /\ UNCHANGED <<communities, businesses, now>>
  /\ UNCHANGED pageVars

\* await supabase.storage.from(bucketType).upload(fileName, buffer, ...)
StorageUpload(i) ==
  /\ pc[i] = "upload"
  /\ \E uploadError \in BOOLEAN :
       LET bucketType == Val(req[i].bucket_type)
       IN IF uploadError
            THEN /\ Respond(i, ErrorJson(500, "upload failed"))
                 /\ Called(i, "upload", "error")
                 /\ UNCHANGED <<storage, last>>
            ELSE /\ storage' = [storage EXCEPT ![bucketType] =
                       upload(@, fileName[i], Val(req[i].file))]
                 /\ pc' = [pc EXCEPT ![i] = "update"]
                 /\ Called(i, "upload", "ok")
                 /\ last' = keepLast(req[i])
                 /\ UNCHANGED response
  /\ UNCHANGED <<req, userId, fileName, ownerSeen, started>>
  /\ UNCHANGED <<communities, businesses, now>>
  /\ UNCHANGED pageVars

\* Mutant: when the row update fails the object just written is removed.
RowUpdate_rollback(i) ==
  /\ pc[i] = "update"
  /\ \E updateError \in BOOLEAN :
       LET bucketType == Val(req[i].bucket_type)
           entityId == Val(req[i].entity_id)
           publicUrl == getPublicUrl(bucketType, fileName[i])
           updateField == updateFieldOf(Val(req[i].image_type))
           table == update(tableOf(bucketType), entityId, updateField,
                           publicUrl, now)
       IN IF updateError
            THEN /\ Respond(i, ErrorJson(500, "update failed"))
                 /\ Called(i, "update", "error")
                 /\ storage' = [storage EXCEPT ![bucketType] =
                       [p \in DOMAIN @ \ {fileName[i]} |-> @[p]]]
                 /\ last' = None
                 /\ UNCHANGED <<communities, businesses, now>>
            ELSE /\ communities' =
                      IF bucketType = "communities" THEN table ELSE communities
                 /\ businesses' =
                      IF bucketType = "businesses" THEN table ELSE businesses
                 /\ now' = now + 1
                 /\ Respond(i, Json(200, [success |-> TRUE,
                                          image_url |-> publicUrl]))
                 /\ Called(i, "update", "ok")
                 /\ last' = Some([req |-> req[i], fileName |-> fileName[i],
                                  storage |-> storage,
                                  columns |-> imageColumns(table, entityId),
                                  n |-> IF keepLast(req[i]) = None THEN 1
                                        ELSE Val(last).n + 1])
                 /\ UNCHANGED storage
  /\ UNCHANGED <<req, userId, fileName, ownerSeen, started>>
  /\ UNCHANGED pageVars

\* getPublicUrl, then await supabase.from(bucketType).update(...).eq("id", ...)
\* and the success response.
RowUpdate(i) ==
  /\ pc[i] = "update"
  /\ \E updateError \in BOOLEAN :
       LET bucketType == Val(req[i].bucket_type)
           entityId == Val(req[i].entity_id)
           publicUrl == getPublicUrl(bucketType, fileName[i])
           updateField == updateFieldOf(Val(req[i].image_type))
           table == update(tableOf(bucketType), entityId, updateField,
                           publicUrl, now)
       IN IF updateError
            THEN /\ Respond(i, ErrorJson(500, "update failed"))
                 /\ Called(i, "update", "error")
                 /\ UNCHANGED <<communities, businesses, now, last>>
            ELSE /\ communities' =
                      IF bucketType = "communities" THEN table ELSE communities
                 /\ businesses' =
                      IF bucketType = "businesses" THEN table ELSE businesses
                 /\ now' = now + 1
                 /\ Respond(i, Json(200, [success |-> TRUE,
                                          image_url |-> publicUrl]))
                 /\ Called(i, "update", "ok")
                 /\ last' = Some([req |-> req[i], fileName |-> fileName[i],
                                  storage |-> storage,
                                  columns |-> imageColumns(table, entityId),
                                  n |-> IF keepLast(req[i]) = None THEN 1
                                        ELSE Val(last).n + 1])
  /\ UNCHANGED <<req, userId, fileName, ownerSeen, started, storage>>
  /\ UNCHANGED pageVars

\* The collaborator call invocation i is waiting for throws instead of
\* returning; the catch block answers 500 and nothing is written.
Throw(i) ==
  /\ pc[i] \in {"validate_session", "lookup", "upload", "update"}
  /\ \E error \in Thrown :
       /\ Respond(i, caught(error))
       /\ Called(i, pc[i], "throw")
  /\ UNCHANGED <<req, userId, fileName, ownerSeen, started, last>>
  /\ UNCHANGED dbVars
  /\ UNCHANGED pageVars

\* The caller has its response; the slot is free for the next invocation.
Return(i) ==
  /\ pc[i] = "done"
  /\ pc' = [pc EXCEPT ![i] = "idle"]
  /\ req' = [req EXCEPT ![i] = NoRequest]
  /\ userId' = [userId EXCEPT ![i] = ""]
  /\ fileName' = [fileName EXCEPT ![i] = <<>>]
  /\ response' = [response EXCEPT ![i] = NoResponse]
  /\ trace' = [trace EXCEPT ![i] = <<>>]
  /\ ownerSeen' = [ownerSeen EXCEPT ![i] = None]
  /\ UNCHANGED <<started, last>>
  /\ UNCHANGED dbVars
  /\ UNCHANGED pageVars

\* The owner deletes a community (the page's delete action): its row goes.
DeleteCommunity(id) ==
  /\ id \in DOMAIN communities
  /\ communities' = [c \in DOMAIN communities \ {id} |-> communities[c]]
  /\ last' = None
  /\ UNCHANGED <<businesses, storage, now, started>>
  /\ UNCHANGED invVars
  /\ UNCHANGED pageVars

Next ==
  \E i \in Invs :
    \/ \E r \in Reqs : Arrive(i, r)
    \/ Receive(i)
    \/ ValidateSession(i)
    \/ FormData(i)
    \/ OwnershipLookup(i)
    \/ StorageUpload(i)
    \/ RowUpdate(i)
    \/ Throw(i)
    \/ Return(i)
    \/ DeleteCommunity(s_C1)

Spec == Init /\ [][Next]_vars

\* ------------------------------------------------------------ one invocation, any request
\* Every sequence over S of length at most n.
RECURSIVE SeqsUpTo(_, _)
SeqsUpTo(S, n) ==
  IF n = 0 THEN {<<>>}
  ELSE LET shorter == SeqsUpTo(S, n - 1)
       IN shorter \cup {Append(q, c) : q \in {x \in shorter : Len(x) = n - 1}, c \in S}

Names == SeqsUpTo({"a", "."}, MaxNameLen) \cup {s_photo, s_photo_png, s_photo_dot}

Tokens == {None, Some(""), Some("t1"), Some("t2"), Some("bad")}

\* Requests that vary everything the checks before the upload read.
CheckedFiles ==
  {None} \cup
  { Some(File(s_photo_png, size, type, "b1")) :
      size \in {0, 2000000, MaxFileSize, MaxFileSize + 1},
      type \in allowedTypes \cup {"image/svg+xml", ""} }

CheckedReqs ==
  { Request("POST", t, TRUE, f, b, e, it) :
      t \in Tokens, f \in CheckedFiles,
      b \in {None, Some(""), Some("communities"), Some("businesses"),
             Some("avatars"), Some("Communities")},
      e \in {None, Some(<<>>), Some(s_C1), Some(s_C2), Some(s_B1)},
      it \in {None, Some(<<>>), Some(s_cover), Some(s_logo), Some(s_banner)} }

\* Requests that pass the checks and vary the file's name.
NamedReqs ==
  { Post(t, File(n, 2000000, "image/png", "b1"), b, e, it) :
      t \in {"t1", "t2"}, n \in Names, b \in validBuckets,
      e \in {s_C1, s_B1}, it \in {s_cover, s_logo, s_banner} }

\* Requests whose body is no form data, and preflight requests.
OtherReqs ==
  { Request(m, t, FALSE, None, None, None, None) :
      m \in {"POST", "OPTIONS"}, t \in Tokens }

ReqsV == CheckedReqs \cup NamedReqs \cup OtherReqs

InitV ==
  /\ InitDb
  /\ kind = "communities"
  /\ PageMounted
  /\ started = 1
  /\ last = None
  /\ \E r \in ReqsV :
       /\ pc = [i \in Invs |-> IF i = "A" THEN "start" ELSE "idle"]
       /\ req = [i \in Invs |-> IF i = "A" THEN r ELSE NoRequest]
  /\ userId = [i \in Invs |-> ""]
  /\ fileName = [i \in Invs |-> <<>>]
  /\ response = [i \in Invs |-> NoResponse]
  /\ trace = [i \in Invs |-> <<>>]
  /\ ownerSeen = [i \in Invs |-> None]

NextV ==
  \E i \in Invs :
    \/ Receive(i)
    \/ ValidateSession(i)
    \/ FormData(i)
    \/ OwnershipLookup(i)
    \/ StorageUpload(i)
    \/ RowUpdate(i)
    \/ Throw(i)

SpecV == InitV /\ [][NextV]_vars

\* ------------------------------------------------------------ properties
\* Invocation i has called collaborator `what` (with any outcome).
HasCalled(i, what) == \E k \in 1..Len(trace[i]) : trace[i][k][1] = what

\* Invocation i's call of collaborator `what` had outcome `outcome`.
CallEnded(i, what, outcome) ==
  \E k \in 1..Len(trace[i]) : trace[i][k] = <<what, outcome>>

\* The session of invocation i resolved to a user identity.
SessionValid(i) == CallEnded(i, "validate_session", "ok")

\* C1: an invocation issues the object-store write or the row update only
\* if its session token resolved to a user identity and that identity was
\* the owner field its ownership lookup read from the target entity.
C1_AuthorizationSafety ==
  \A i \in Invs :
    (pc[i] \in {"upload", "update"} \/ HasCalled(i, "upload") \/ HasCalled(i, "update"))
      => /\ req[i].token # None
         /\ validate_session(Val(req[i].token)) = Some(userId[i])
         /\ ownerSeen[i] = Some(userId[i])

\* An invocation has written the object and updated the row while another
\* user's request for the same entity was turned away.
C1_Witness ==
  \E i, j \in Invs :
    /\ CallEnded(i, "upload", "ok") /\ CallEnded(i, "update", "ok")
    /\ pc[j] = "done" /\ response[j].status = 403
    /\ req[j].entity_id = req[i].entity_id
    /\ req[j].bucket_type = req[i].bucket_type

\* C2: a non-preflight request without an x-session-token header is answered
\* 401 whatever its body and fields are, and no collaborator is called.
C2_NoTokenIs401 ==
  \A i \in Invs :
    (req[i].method = "POST" /\ req[i].token = None)
      => /\ pc[i] \in {"start", "done"}
         /\ trace[i] = <<>>
         /\ communities = (s_C1 :> CommunityRow("U1")) @@ (s_C2 :> CommunityRow("U2"))
         /\ businesses = (s_B1 :> BusinessRow("U1"))
         /\ storage = [b \in validBuckets |-> <<>>]
         /\ pc[i] = "done" => response[i].status = 401

\* A request with no header and a body that is no form data has been
\* answered 401.
C2_Witness ==
  \E i \in Invs :
    /\ req[i].method = "POST" /\ req[i].token = None /\ ~req[i].bodyOk
    /\ pc[i] = "done" /\ response[i].status = 401

\* C3: past the field, bucket and file checks, a valid session's request for
\* an entity owned by someone else is answered 403, and that response is the
\* one a request for an entity that does not exist gets, for the same
\* bucket_type.
C3_ForbiddenSameAsMissing ==
  \A i \in Invs :
    (pc[i] = "done" /\ CallEnded(i, "lookup", "ok") /\ ownerSeen[i] # Some(userId[i]))
      => /\ response[i].status = 403
         /\ \A j \in Invs :
              (pc[j] = "done" /\ CallEnded(j, "lookup", "none")
                 /\ req[j].bucket_type = req[i].bucket_type)
                => response[j] = response[i]

\* One invocation was refused an existing entity of another owner and one a
\* missing entity, in the same bucket type.
C3_Witness ==
  \E i, j \in Invs :
    /\ pc[i] = "done" /\ CallEnded(i, "lookup", "ok") /\ ownerSeen[i] # Some(userId[i])
    /\ pc[j] = "done" /\ CallEnded(j, "lookup", "none")
    /\ req[j].bucket_type = req[i].bucket_type
    /\ response[i].status = 403

\* ------------------------------------------------------------ one caller, one upload at a time
\* Besides the requests of Spec, one request for each rejection before the
\* ownership lookup.
ReqsSeq ==
  Reqs \cup
  { Request("POST", None, TRUE, Some(f_png), Some("communities"), Some(s_C1), Some(s_cover)),
    Request("POST", Some("bad"), TRUE, Some(f_png), Some("communities"), Some(s_C1), Some(s_cover)),
    Request("POST", Some("t1"), TRUE, None, Some("communities"), Some(s_C1), Some(s_cover)),
    Post("t1", f_png, "avatars", s_C1, s_cover),
    Post("t1", f_png, "communities", s_C2, s_cover),
    Post("t2", f_png, "communities", s_C2, s_cover),
    Post("t1", File(s_photo_png, MaxFileSize + 1, "image/png", "b1"), "communities", s_C1, s_cover),
    Post("t1", File(s_photo_png, 2000000, "image/svg+xml", "b1"), "communities", s_C1, s_cover) }

NextSeq ==
  \/ \E r \in ReqsSeq : Arrive("A", r)
  \/ Receive("A")
  \/ ValidateSession("A")
  \/ FormData("A")
  \/ OwnershipLookup("A")
  \/ StorageUpload("A")
  \/ RowUpdate("A")
  \/ Throw("A")
  \/ Return("A")

SpecSeq == Init /\ [][NextSeq]_vars

\* Invocation i has derived its storage path.
HasPath(i) ==
  pc[i] \in {"upload", "update"} \/ HasCalled(i, "upload")

\* The form fields of invocation i are all present and not empty, its
\* session is valid and its bucket_type is one of the two buckets.
WellFormed(i) ==
  /\ SessionValid(i)
  /\ req[i].bodyOk
  /\ ~fieldsMissing(req[i])
  /\ req[i].bucket_type \in {Some("communities"), Some("businesses")}

\* Invocation i has called none of the entity lookup, the storage write and
\* the row update.
NoDataCall(i) ==
  ~HasCalled(i, "lookup") /\ ~HasCalled(i, "upload") /\ ~HasCalled(i, "update")

\* C4 (as claimed): a file name without a '.' gives the storage path
\* {entity_id}/{image_type}.jpg.
C4_NoDotGivesJpg ==
  \A i \in Invs :
    (HasPath(i) /\ \A k \in 1..Len(Val(req[i].file).name) :
                     Val(req[i].file).name[k] # ".")
      => fileName[i] = Val(req[i].entity_id) \o <<"/">> \o Val(req[i].image_type)
                         \o <<".", "j", "p", "g">>

\* s is p followed by something.
StartsWith(s, p) == Len(s) >= Len(p) /\ SubSeq(s, 1, Len(p)) = p

\* The stored objects of bucket b that belong to image it of entity e.
ObjectsOf(b, e, it) ==
  {p \in DOMAIN storage[b] : StartsWith(p, e \o <<"/">> \o it \o <<".">>)}

\* C5 (as claimed): when every upload so far has succeeded, the store holds
\* at most one object per bucket, entity and image type.
C5_OneObjectPerImage ==
  (started = now - 1 /\ pc["A"] \in {"idle", "done"})
    => \A b \in validBuckets, e \in {s_C1, s_B1}, it \in {s_cover, s_logo} :
         Cardinality(ObjectsOf(b, e, it)) <= 1

\* C6 (as claimed): with a valid session, a bucket_type other than
\* 'communities' and 'businesses' (absent and empty included) is answered
\* 400 and no entity lookup, storage write or row update is made.
C6_BadBucketIs400 ==
  \A i \in Invs :
    (SessionValid(i) /\ pc[i] # "formData"
       /\ req[i].bucket_type \notin {Some("communities"), Some("businesses")})
      => pc[i] = "done" /\ response[i].status = 400 /\ NoDataCall(i)

\* C6 (amended): the same, for a request whose body can be read as form
\* data.
C6_BadBucketIs400_FormBody ==
  \A i \in Invs :
    (SessionValid(i) /\ pc[i] # "formData" /\ req[i].bodyOk
       /\ req[i].bucket_type \notin {Some("communities"), Some("businesses")})
      => pc[i] = "done" /\ response[i].status = 400 /\ NoDataCall(i)

\* A request with all other fields in order and an unknown bucket_type has
\* been answered.
C6_Witness ==
  \E i \in Invs :
    /\ SessionValid(i) /\ req[i].bodyOk /\ ~fieldsMissing(req[i])
    /\ req[i].bucket_type = Some("avatars")
    /\ ~fileTooLarge(Val(req[i].file)) /\ ~typeNotAllowed(Val(req[i].file))
    /\ pc[i] = "done" /\ response[i].status = 400

\* C7: with a valid session, the four fields present and a known bucket, the
\* size check answers 400 exactly when the file is larger than 5,242,880
\* bytes, whatever its content type.
C7_SizeLimit ==
  \A i \in Invs :
    (WellFormed(i) /\ pc[i] # "formData")
      => ((pc[i] = "done" /\ NoDataCall(i)
             /\ response[i] = ErrorJson(400, "File must be less than 5MB"))
          <=> Val(req[i].file).size > 5242880)

\* A file of exactly 5,242,880 bytes has passed the size and type checks.
C7_Witness ==
  \E i \in Invs :
    /\ WellFormed(i) /\ Val(req[i].file).size = 5242880
    /\ Val(req[i].file).type = "image/webp"
    /\ pc[i] = "lookup"

\* C8: with a valid session, the four fields present, a known bucket and a
\* file of at most 5,242,880 bytes, a content type outside the four allowed
\* ones is answered 400 and no entity lookup, storage write or row update
\* is made.
C8_TypeNotAllowedIs400 ==
  \A i \in Invs :
    (WellFormed(i) /\ pc[i] # "formData"
       /\ Val(req[i].file).size <= 5242880
       /\ Val(req[i].file).type \notin
            {"image/jpeg", "image/png", "image/gif", "image/webp"})
      => pc[i] = "done" /\ response[i].status = 400 /\ NoDataCall(i)

\* An SVG file within the size limit has been rejected.
C8_Witness ==
  \E i \in Invs :
    /\ WellFormed(i) /\ Val(req[i].file).size = 5242880
    /\ Val(req[i].file).type = "image/svg+xml"
    /\ pc[i] = "done" /\ response[i].status = 400

\* The request of the end-to-end scenario: user U1's token, a PNG named
\* photo.png within the size limit, as the cover of community C1.
IsCoverOfC1(r) ==
  /\ r.method = "POST" /\ r.token = Some("t1") /\ r.bodyOk
  /\ r.file # None /\ Val(r.file).name = s_photo_png
  /\ Val(r.file).size = 2000000 /\ Val(r.file).type = "image/png"
  /\ r.bucket_type = Some("communities")
  /\ r.entity_id = Some(s_C1)
  /\ r.image_type = Some(s_cover)

\* No collaborator call of invocation i has failed.
NoCallFailed(i) ==
  \A k \in 1..Len(trace[i]) : trace[i][k][2] \notin {"error", "throw"}

\* C9: the scenario's request, when no remote call fails, is stored at
\* C1/cover.png, answered {success: true, image_url: URL} with URL the public
\* address of that path in bucket communities, and leaves that URL in
\* communities.cover_image_url of C1.
C9_EndToEnd ==
  \A i \in Invs :
    (pc[i] = "done" /\ IsCoverOfC1(req[i]) /\ NoCallFailed(i))
      => LET path == <<"C", "1", "/", "c", "o", "v", "e", "r", ".", "p", "n", "g">>
             url == getPublicUrl("communities", path)
         IN /\ fileName[i] = path
            /\ response[i] = Json(200, [success |-> TRUE, image_url |-> url])
            /\ communities[s_C1].cover_image_url = url
            /\ path \in DOMAIN storage["communities"]

\* The scenario has run to its success response.
C9_Witness ==
  \E i \in Invs :
    /\ pc[i] = "done" /\ IsCoverOfC1(req[i]) /\ NoCallFailed(i)
    /\ response[i].status = 200

\* C10: when a caller's upload succeeds and its latest successful upload
\* before it was the same request, with nothing else written in between, the
\* second uses the same storage path and leaves the object store and the
\* entity's image columns as the first left them (updated_at aside).
C10_Idempotent ==
  [][\A i \in Invs :
       (/\ pc[i] = "update" /\ pc'[i] = "done" /\ response'[i].status = 200
        /\ last # None /\ Val(last).req = req[i])
         => /\ fileName[i] = Val(last).fileName
            /\ storage' = Val(last).storage
            /\ Val(last').columns = Val(last).columns
            /\ Val(last').columns # None]_vars

\* The same request has succeeded twice in a row.
C10_Witness ==
  \E i \in Invs :
    /\ pc[i] = "done" /\ response[i].status = 200
    /\ last # None /\ Val(last).req = req[i] /\ Val(last).n >= 2

\* The session-validation call of invocation i has returned (it did not
\* throw) and gave an error or no user identity.
SessionRejected(i) ==
  /\ req[i].method = "POST"
  /\ ~noSessionToken(req[i])
  /\ pc[i] \notin {"idle", "start", "validate_session"}
  /\ ~CallEnded(i, "validate_session", "throw")
  /\ \/ validate_session(Val(req[i].token)) = None
     \/ CallEnded(i, "validate_session", "error")

\* The tables and the object store are as they were at the start.
StoreUntouched ==
  /\ communities = (s_C1 :> CommunityRow("U1")) @@ (s_C2 :> CommunityRow("U2"))
  /\ businesses = (s_B1 :> BusinessRow("U1"))
  /\ storage = [b \in validBuckets |-> <<>>]

\* C11: a request whose x-session-token is present but for which the
\* validator returns an error or no user is answered 401 and its body is
\* not processed: the form data is never read, and no entity lookup, no
\* storage write and no row update occur.
C11_InvalidSessionIs401 ==
  \A i \in Invs :
    SessionRejected(i)
      => /\ pc[i] = "done"
         /\ response[i] = ErrorJson(401, "Invalid or expired session")
         /\ Len(trace[i]) = 1
         /\ NoDataCall(i)
         /\ fileName[i] = <<>>
         /\ StoreUntouched

\* A well-formed upload carrying a token no session knows has been answered
\* 401 after the validator returned no user.
C11_Witness ==
  \E i \in Invs :
    /\ req[i].token = Some("bad") /\ req[i].bodyOk
    /\ validation(req[i]) = None
    /\ CallEnded(i, "validate_session", "null")
    /\ pc[i] = "done" /\ response[i].status = 401

\* C12: a rejection leaves state unchanged. The tables and the object store
\* change only in a step in which an invocation's storage write or row
\* update returns without error, and an invocation that ends with status
\* 400, 401 or 403 (among them a valid session's upload for an entity owned
\* by someone else) has made neither call and ends in a step that changes
\* no table and no object: image columns and objects keep their values.
C12_RejectionLeavesState ==
  [][ /\ <<communities, businesses, storage>>' # <<communities, businesses, storage>>
           => \E i \in Invs :
                /\ pc[i] \in {"upload", "update"}
                /\ trace'[i] = Append(trace[i], <<pc[i], "ok">>)
      /\ \A i \in Invs :
           (pc[i] # "done" /\ pc'[i] = "done"
              /\ response'[i].status \in {400, 401, 403})
             => /\ UNCHANGED <<communities, businesses, storage>>
                /\ \A k \in 1..Len(trace'[i]) :
                     trace'[i][k][1] \notin {"upload", "update"}
    ]_vars

\* After its owner gave community C2 a cover, another user's upload for C2
\* has been answered 403 and the cover column still holds the owner's image.
C12_Witness ==
  \E i \in Invs :
    /\ req[i].token = Some("t1") /\ req[i].entity_id = Some(s_C2)
    /\ req[i].bucket_type = Some("communities")
    /\ pc[i] = "done" /\ response[i].status = 403
    /\ communities[s_C2].cover_image_url # NoUrl
    /\ storage["communities"] # <<>>

\* C13: on a successful upload, whichever the bucket_type, the target row's
\* cover_image_url (when image_type is exactly "cover") or logo_url (for
\* every other image_type) holds the public address of the object just
\* written, which is also the image_url of the response; the row's other
\* image column is not written.
C13_ColumnSelection ==
  \A i \in Invs :
    (pc[i] = "done" /\ req[i].method = "POST" /\ response[i].status = 200)
      => LET b == Val(req[i].bucket_type)
             row == tableOf(b)[Val(req[i].entity_id)]
             url == getPublicUrl(b, fileName[i])
         IN /\ fileName[i] \in DOMAIN storage[b]
            /\ response[i].body.image_url = url
            /\ IF req[i].image_type = Some(s_cover)
                 THEN row.cover_image_url = url /\ row.logo_url = NoUrl
                 ELSE row.logo_url = url /\ row.cover_image_url = NoUrl

\* An upload of image_type "banner" for a business has succeeded and its
\* address is in logo_url.
C13_Witness ==
  \E i \in Invs :
    /\ pc[i] = "done" /\ response[i].status = 200
    /\ req[i].image_type = Some(s_banner)
    /\ req[i].bucket_type = Some("businesses")
    /\ businesses[s_B1].logo_url # NoUrl

\* One of the two JSON responses: 200 {success: true, image_url} or
\* {error: string} with status 400, 401, 403 or 500.
StructuredResponse(r) ==
  \/ /\ r.status = 200
     /\ DOMAIN r.body = {"success", "image_url"}
     /\ r.body.success = TRUE
  \/ /\ r.status \in {400, 401, 403, 500}
     /\ DOMAIN r.body = {"error"}
     /\ r.body.error \in STRING

\* C14 (as claimed): every invocation of the handler ends with one of the
\* two JSON responses.
C14_EveryInvocationStructured ==
  \A i \in Invs : pc[i] = "done" => StructuredResponse(response[i])

\* Invocation i met an exception: its body is no form data and formData()
\* was reached, or a collaborator call threw.
MetException(i) ==
  \/ /\ ~req[i].bodyOk
     /\ CallEnded(i, "validate_session", "ok")
  \/ \E k \in 1..Len(trace[i]) : trace[i][k][2] = "throw"

\* C14 (amended): every invocation for a request other than the OPTIONS
\* preflight ends with exactly one response, which is one of the two JSON
\* responses; an exception thrown by the body parsing or by a collaborator
\* call ends it with 500 {error}.
C14_NonPreflightStructured ==
  /\ [] \A i \in Invs :
          (pc[i] = "done" /\ req[i].method # "OPTIONS")
            => /\ StructuredResponse(response[i])
               /\ MetException(i)
                    => /\ response[i].status = 500
                       /\ DOMAIN response[i].body = {"error"}
  /\ [][ \A i \in Invs :
           /\ response'[i] # response[i] => pc[i] # "done" /\ pc'[i] = "done"
           /\ (pc[i] # "done" /\ pc'[i] = "done") => response'[i] # NoResponse
       ]_vars

\* The storage write of an upload threw a value that is no Error and the
\* invocation was answered 500 "Unknown error occurred".
C14_Witness ==
  \E i \in Invs :
    /\ CallEnded(i, "upload", "throw")
    /\ pc[i] = "done"
    /\ response[i] = ErrorJson(500, "Unknown error occurred")

\* One of the four form fields of request r is absent or empty, an empty
\* file being one of no bytes.
AbsentOrEmpty(r) ==
  \/ r.file = None \/ (r.file # None /\ Val(r.file).size = 0)
  \/ r.bucket_type \in {None, Some("")}
  \/ r.entity_id \in {None, Some(<<>>)}
  \/ r.image_type \in {None, Some(<<>>)}

\* Invocation i is past the reading and checking of the form data.
PastFormData(i) == pc[i] \in {"lookup", "upload", "update", "done"}

\* C15 (as claimed): a valid session's request in which file, bucket_type,
\* entity_id or image_type is absent or empty is answered 400 and no entity
\* lookup, storage write or row update is performed.
C15_MissingFieldIs400 ==
  \A i \in Invs :
    (SessionValid(i) /\ PastFormData(i) /\ AbsentOrEmpty(req[i]))
      => /\ pc[i] = "done" /\ response[i].status = 400
         /\ NoDataCall(i)

\* C15 (amended): a valid session's request whose body is form data in which
\* the file is absent, or bucket_type, entity_id or image_type is absent or
\* the empty string, is answered 400 with the required-fields message and
\* no entity lookup, storage write or row update is performed.
C15_MissingFieldIs400_FormBody ==
  \A i \in Invs :
    (/\ SessionValid(i) /\ PastFormData(i) /\ req[i].bodyOk
     /\ \/ req[i].file = None
        \/ req[i].bucket_type \in {None, Some("")}
        \/ req[i].entity_id \in {None, Some(<<>>)}
        \/ req[i].image_type \in {None, Some(<<>>)})
      => /\ pc[i] = "done"
         /\ response[i] = ErrorJson(400, "File, bucket_type, entity_id, and image_type are required")
         /\ NoDataCall(i)
         /\ StoreUntouched

\* Form data that lacks only the file has been answered 400.
C15_Witness ==
  \E i \in Invs :
    /\ SessionValid(i) /\ req[i].bodyOk
    /\ req[i].file = None
    /\ req[i].bucket_type = Some("communities") /\ req[i].entity_id = Some(s_C1)
    /\ pc[i] = "done" /\ response[i].status = 400

\* An image column of a row that stays in table `table` changes in the step.
ColumnChanged(before, after) ==
  \E id \in DOMAIN before \cap DOMAIN after :
    imageColumns(before, id) # imageColumns(after, id)

\* C16: an invocation issues the row update only after its own object-store
\* write has returned without error (the object is then in the store), and
\* an image column changes only in the step of such an invocation's row
\* update; no column is updated before or without a successful write.
C16_WriteBeforeRecord ==
  /\ [] \A i \in Invs :
          (pc[i] = "update" \/ HasCalled(i, "update"))
            => /\ \E k \in 1..Len(trace[i]) :
                    /\ trace[i][k] = <<"upload", "ok">>
                    /\ \A m \in 1..Len(trace[i]) : trace[i][m][1] = "update" => k < m
               /\ fileName[i] \in DOMAIN storage[Val(req[i].bucket_type)]
  /\ [][ (ColumnChanged(communities, communities') \/ ColumnChanged(businesses, businesses'))
           => \E i \in Invs :
                /\ pc[i] = "update"
                /\ CallEnded(i, "upload", "ok")
                /\ trace'[i] = Append(trace[i], <<"update", "ok">>)
       ]_vars

\* One invocation has written its object and updated its row while the
\* storage write of another failed.
C16_Witness ==
  \E i, j \in Invs :
    /\ CallEnded(i, "upload", "ok") /\ CallEnded(i, "update", "ok")
    /\ CallEnded(j, "upload", "error") /\ pc[j] = "done"

\* C17: when an invocation's object-store write has succeeded and its row
\* update then fails, the invocation ends with 500 and the update error's
\* message, the step removes nothing from the store (the object written
\* stays, no compensating deletion) and changes no table: the image column
\* keeps its previous value.
C17_OrphanOnUpdateFailure ==
  /\ [] \A i \in Invs :
          CallEnded(i, "update", "error")
            => /\ CallEnded(i, "upload", "ok")
               /\ pc[i] = "done"
               /\ response[i] = ErrorJson(500, "update failed")
               /\ fileName[i] \in DOMAIN storage[Val(req[i].bucket_type)]
  /\ [][ \A i \in Invs :
           (pc[i] = "update" /\ trace'[i] = Append(trace[i], <<"update", "error">>))
             => /\ storage' = storage
                /\ communities' = communities
                /\ businesses' = businesses
       ]_vars

\* C1 has the cover of an earlier upload; the row update of the owner's next
\* upload failed, its object is in the store and the column still holds the
\* earlier address.
C17_Witness ==
  \E i \in Invs :
    /\ CallEnded(i, "update", "error") /\ pc[i] = "done"
    /\ req[i].entity_id = Some(s_C1) /\ req[i].bucket_type = Some("communities")
    /\ fileName[i] \in DOMAIN storage["communities"]
    /\ s_C1 \in DOMAIN communities
    /\ communities[s_C1].cover_image_url # NoUrl
    /\ communities[s_C1].cover_image_url.path # fileName[i]

\* C18: when an invocation's object-store write returns an error the
\* invocation ends there with 500 and that error's message: the failed
\* write is the last call it makes, the row update is never attempted, and
\* the step changes no table, so the image column is unchanged.
C18_UploadFailureIsTerminal ==
  /\ [] \A i \in Invs :
          CallEnded(i, "upload", "error")
            => /\ pc[i] = "done"
               /\ response[i] = ErrorJson(500, "upload failed")
               /\ trace[i][Len(trace[i])] = <<"upload", "error">>
               /\ ~HasCalled(i, "update")
  /\ [][ \A i \in Invs :
           (pc[i] = "upload" /\ trace'[i] = Append(trace[i], <<"upload", "error">>))
             => /\ communities' = communities
                /\ businesses' = businesses
       ]_vars

\* The storage write of the owner's upload for business B1 failed and the
\* invocation was answered 500; the logo column holds no address.
C18_Witness ==
  \E i \in Invs :
    /\ CallEnded(i, "upload", "error")
    /\ req[i].bucket_type = Some("businesses") /\ req[i].entity_id = Some(s_B1)
    /\ pc[i] = "done" /\ response[i].status = 500
    /\ businesses[s_B1].logo_url = NoUrl

\* C19: the storage write and the row update of an invocation for
\* (bucket_type, entity_id, image_type) change at most the object at the
\* invocation's path in the bucket bucket_type names, and at most the row
\* entity_id of the table bucket_type names, of which at most the selected
\* image column and updated_at; every other object, every other row, the
\* other table, and the row's owner field and other image column are as
\* they were.
C19_Frame ==
  [][ \A i \in Invs :
        (pc[i] \in {"upload", "update"} /\ trace'[i] # trace[i])
          => LET b == Val(req[i].bucket_type)
                 e == Val(req[i].entity_id)
                 cover == req[i].image_type = Some(s_cover)
                 old == IF b = "communities" THEN communities ELSE businesses
                 new == IF b = "communities" THEN communities' ELSE businesses'
             IN /\ \A bb \in validBuckets :
                     \A p \in DOMAIN storage[bb] \cup DOMAIN storage'[bb] :
                       (bb # b \/ p # fileName[i])
                         => /\ p \in DOMAIN storage[bb] \cap DOMAIN storage'[bb]
                            /\ storage'[bb][p] = storage[bb][p]
                /\ b = "communities" => businesses' = businesses
                /\ b = "businesses" => communities' = communities
                /\ DOMAIN new = DOMAIN old
                /\ \A id \in DOMAIN old :
                     IF id # e THEN new[id] = old[id]
                     ELSE new[id] =
                       IF cover
                         THEN [old[id] EXCEPT !.cover_image_url = new[id].cover_image_url,
                                              !.updated_at = new[id].updated_at]
                         ELSE [old[id] EXCEPT !.logo_url = new[id].logo_url,
                                              !.updated_at = new[id].updated_at]
    ]_vars

\* The owner's uploads for community C1 and business B1 have both succeeded
\* and community C2 is as it was at the start.
C19_Witness ==
  /\ s_C1 \in DOMAIN communities
  /\ communities[s_C1].cover_image_url # NoUrl
  /\ communities[s_C1].logo_url = NoUrl
  /\ businesses[s_B1].logo_url # NoUrl
  /\ communities[s_C2] = CommunityRow("U2")
  /\ \E i \in Invs : pc[i] = "done" /\ response[i].status = 200

\* The message of the first of the checks required fields, bucket kind,
\* file size, content type that request r fails, "" when it passes them.
EarliestRejection(r) ==
  IF \/ r.file = None
     \/ r.bucket_type \in {None, Some("")}
     \/ r.entity_id \in {None, Some(<<>>)}
     \/ r.image_type \in {None, Some(<<>>)}
    THEN "File, bucket_type, entity_id, and image_type are required"
  ELSE IF r.bucket_type \notin {Some("communities"), Some("businesses")}
    THEN "Invalid bucket type"
  ELSE IF Val(r.file).size > 5242880
    THEN "File must be less than 5MB"
  ELSE IF Val(r.file).type \notin {"image/jpeg", "image/png", "image/gif", "image/webp"}
    THEN "Only JPEG, PNG, GIF, and WebP images are allowed"
  ELSE ""

\* The entity request r names exists and belongs to the user of r's token.
CallerOwns(r) ==
  LET b == Val(r.bucket_type)
      e == Val(r.entity_id)
  IN /\ e \in DOMAIN tableOf(b)
     /\ Some(ownerOf(b, tableOf(b)[e])) = validate_session(Val(r.token))

\* No call of invocation i threw.
NoThrow(i) == \A k \in 1..Len(trace[i]) : trace[i][k][2] # "throw"

\* The outcome of the checks from required fields on, for an invocation
\* with a valid session that has ended: the rejection of the first check
\* failed and no lookup, else the lookup and 403 for a caller who does not
\* own the entity.
FieldChecksInOrder(i) ==
  IF EarliestRejection(req[i]) # ""
    THEN /\ response[i] = ErrorJson(400, EarliestRejection(req[i]))
         /\ NoDataCall(i)
    ELSE /\ HasCalled(i, "lookup")
         /\ ~CallerOwns(req[i]) => response[i].status = 403 /\ ~HasCalled(i, "upload")

\* C20 (as claimed): a request that fails several checks is rejected by the
\* first one in the order session presence, session validity, required
\* fields, bucket kind, file size, content type, ownership.
C20_Precedence ==
  \A i \in Invs :
    (pc[i] = "done" /\ req[i].method = "POST" /\ NoThrow(i))
      => IF noSessionToken(req[i])
           THEN response[i] = ErrorJson(401, "No session token provided")
         ELSE IF ~SessionValid(i)
           THEN response[i] = ErrorJson(401, "Invalid or expired session")
         ELSE FieldChecksInOrder(i)

\* C20 (amended): the order has one more step, the reading of the body as
\* form data, between session validity and required fields; a request that
\* fails several steps is rejected by the first one, a body that is no form
\* data with 500. An oversized or disallowed-type file aimed at an entity
\* that is not the caller's or does not exist gets 400 without a lookup, and
\* an oversized file of a disallowed type gets the size rejection.
C20_PrecedenceWithBody ==
  \A i \in Invs :
    (pc[i] = "done" /\ req[i].method = "POST" /\ NoThrow(i))
      => IF noSessionToken(req[i])
           THEN response[i] = ErrorJson(401, "No session token provided")
                /\ trace[i] = <<>>
         ELSE IF ~SessionValid(i)
           THEN response[i] = ErrorJson(401, "Invalid or expired session")
                /\ NoDataCall(i)
         ELSE IF ~req[i].bodyOk
           THEN response[i].status = 500 /\ NoDataCall(i)
         ELSE FieldChecksInOrder(i)

\* An oversized file of a disallowed type aimed at another user's community
\* has been answered with the size rejection and no lookup was issued.
C20_Witness ==
  \E i \in Invs :
    /\ pc[i] = "done" /\ SessionValid(i) /\ req[i].bodyOk
    /\ req[i].token = Some("t1")
    /\ req[i].bucket_type = Some("communities") /\ req[i].entity_id = Some(s_C2)
    /\ req[i].image_type = Some(s_cover)
    /\ req[i].file # None
    /\ Val(req[i].file).size > 5242880
    /\ Val(req[i].file).type = "image/svg+xml"
    /\ response[i] = ErrorJson(400, "File must be less than 5MB")
    /\ ~HasCalled(i, "lookup")

\* ------------------------------------------------------------ two racing uploads
\* A second file under the name of f_png, with other bytes.
f_png2 == File(s_photo_png, 2000000, "image/png", "b3")

\* The owner's uploads of a cover for community C1.
RaceReqs ==
  { Post("t1", f, "communities", s_C1, s_cover) : f \in {f_png, f_png2, f_jpg} }

\* Two requests of the owner have arrived at the same time.
InitRace ==
  /\ InitDb
  /\ kind = "communities"
  /\ PageMounted
  /\ started = 2
  /\ last = None
  /\ pc = [i \in Invs |-> "start"]
  /\ \E ra, rb \in RaceReqs : req = [i \in Invs |-> IF i = "A" THEN ra ELSE rb]
  /\ userId = [i \in Invs |-> ""]
  /\ fileName = [i \in Invs |-> <<>>]
  /\ response = [i \in Invs |-> NoResponse]
  /\ trace = [i \in Invs |-> <<>>]
  /\ ownerSeen = [i \in Invs |-> None]

NextRace ==
  \E i \in Invs :
    \/ Receive(i)
    \/ ValidateSession(i)
    \/ FormData(i)
    \/ OwnershipLookup(i)
    \/ StorageUpload(i)
    \/ RowUpdate(i)
    \/ Throw(i)

SpecRace == InitRace /\ [][NextRace]_vars

\* Invocation i's call `what` returns without error in the step.
Succeeds(i, what) ==
  pc[i] = what /\ trace'[i] = Append(trace[i], <<what, "ok">>)

\* C21: two uploads of the owner for the same (entity_id, image_type), under
\* every interleaving: each storage write that returns without error leaves
\* its own bytes in the object at its path, each row update that returns
\* without error leaves its own URL in the column, and object and column
\* change in no other step; so the object holds the bytes of the write that
\* executed last and the column the URL of the update that executed last.
C21_LastWriterWins ==
  [][ /\ \A i \in Invs :
           /\ Succeeds(i, "upload")
                => storage'["communities"][fileName[i]].bytes = Val(req[i].file).bytes
           /\ Succeeds(i, "update")
                => communities'[s_C1].cover_image_url
                     = getPublicUrl("communities", fileName[i])
      /\ storage' # storage => \E i \in Invs : Succeeds(i, "upload")
      /\ communities' # communities => \E i \in Invs : Succeeds(i, "update")
    ]_vars

\* Both uploads have succeeded at the same path; the object holds the bytes
\* of one caller and the column was last written by the other.
C21_Witness ==
  \E i, j \in Invs :
    /\ i # j
    /\ pc[i] = "done" /\ response[i].status = 200
    /\ pc[j] = "done" /\ response[j].status = 200
    /\ fileName[i] = fileName[j]
    /\ Val(req[i].file).bytes # Val(req[j].file).bytes
    /\ storage["communities"][fileName[j]].bytes = Val(req[j].file).bytes
    /\ last # None /\ Val(last).req = req[i]

\* C22: within one invocation each collaborator operation (session
\* validation, entity lookup, object-store write, row update) is issued at
\* most once, and a call that fails (it returns an error, no user or no row,
\* or throws) is the invocation's last: the invocation has then ended with
\* its response.
C22_NoRetries ==
  \A i \in Invs :
    /\ \A k, m \in 1..Len(trace[i]) : trace[i][k][1] = trace[i][m][1] => k = m
    /\ \A k \in 1..Len(trace[i]) :
         /\ trace[i][k][1] \in {"validate_session", "lookup", "upload", "update"}
         /\ trace[i][k][2] # "ok"
              => /\ k = Len(trace[i])
                 /\ pc[i] = "done"
                 /\ response[i].status \in {401, 403, 500}

\* An invocation has issued each of the four calls once and the last, the
\* row update, failed.
C22_Witness ==
  \E i \in Invs :
    /\ Len(trace[i]) = 4
    /\ trace[i][4] = <<"update", "error">>
    /\ pc[i] = "done" /\ response[i].status = 500

\* The values of the image columns of the rows of a table.
UrlsOf(table) ==
  { table[id].cover_image_url : id \in DOMAIN table } \cup
  { table[id].logo_url : id \in DOMAIN table }

\* C23: under every interleaving of concurrent uploads, among them uploads
\* of files with different extensions and uploads whose row update fails,
\* every address in an image column is the public address of an object that
\* is in the object store.
C23_NoDanglingUrl ==
  \A url \in (UrlsOf(communities) \cup UrlsOf(businesses)) \ {NoUrl} :
    /\ url.bucket \in validBuckets
    /\ url.path \in DOMAIN storage[url.bucket]
    /\ url = getPublicUrl(url.bucket, url.path)

\* The store holds a .png and a .jpg cover of C1, the column holds the
\* address of one of them, and the row update of an upload has failed.
C23_Witness ==
  /\ s_C1 \in DOMAIN communities
  /\ communities[s_C1].cover_image_url # NoUrl
  /\ Cardinality(DOMAIN storage["communities"]) >= 2
  /\ \E i \in Invs : CallEnded(i, "update", "error")

\* C24 (as claimed): when an invocation's row update is answered 200
\* {success: true, image_url}, the target row existed at the time of the
\* update and the update set its selected image column to image_url, also
\* when the entity is deleted between the ownership lookup and the update.
C24_SuccessMeansWritten ==
  [][ \A i \in Invs :
        (pc[i] = "update" /\ pc'[i] = "done" /\ response'[i].status = 200)
          => LET b == Val(req[i].bucket_type)
                 e == Val(req[i].entity_id)
                 old == IF b = "communities" THEN communities ELSE businesses
                 new == IF b = "communities" THEN communities' ELSE businesses'
             IN /\ e \in DOMAIN old
                /\ e \in DOMAIN new
                /\ IF req[i].image_type = Some(s_cover)
                     THEN new[e].cover_image_url = response'[i].body.image_url
                     ELSE new[e].logo_url = response'[i].body.image_url
    ]_vars

\* ------------------------------------------------------------ the pages
\* Communities (handleEditCommunity, handleUpdateCommunity) and MyBusinesses
\* (handleEditBusiness, handleUpdateBusiness) with their edit dialog and its
\* ImageUpload. The user is taken to be signed in.
s_B2 == <<"B", "2">>

\* The entities the page lists with an edit button.
Entities(k) == IF k = "communities" THEN {s_C1, s_C2} ELSE {s_B1, s_B2}

\* The files the user picks in the file input.
PageFiles ==
  { File(s_photo_png, size, type, "b1") :
      size \in {2000000, MaxFileSize, MaxFileSize + 1},
      type \in {"image/png", "image/svg+xml"} }

\* ImageUpload.handleFileChange: const allowedTypes = [...]
ImageUpload_allowedTypes == {"image/jpeg", "image/png", "image/gif", "image/webp"}

\* Mutant: the size is compared with >=.
rejection_atLimit(file) ==
  IF file.type \notin ImageUpload_allowedTypes
    THEN "Please select a valid image file (JPEG, PNG, GIF, or WebP)"
  ELSE IF file.size >= 5 * 1024 * 1024
    THEN "File size must be less than 5MB"
  ELSE ""

\* ImageUpload.handleFileChange: the alert a file is rejected with, "" for a
\* file that is accepted. The type is tested first, then the size.
rejection(file) ==
  IF file.type \notin ImageUpload_allowedTypes
    THEN "Please select a valid image file (JPEG, PNG, GIF, or WebP)"
  ELSE IF file.size > 5 * 1024 * 1024
    THEN "File size must be less than 5MB"
  ELSE ""

\* supabase.functions.invoke('upload-image', {body: formData}) as the save
\* handler composes it; selectedFor is the entity that was being edited when
\* the file was selected, result how the call has returned.
UploadCall(id, file, for) ==
  [fn |-> "upload-image", bucket_type |-> kind, entity_id |-> id,
   image_type |-> IF kind = "communities" THEN s_cover ELSE s_logo,
   file |-> file, selectedFor |-> for, result |-> "pending"]

\* supabase.functions.invoke('manage-community' / 'manage-business',
\* {body: {action: 'update', ...}})
ManageCall(id) ==
  [fn |-> IF kind = "communities" THEN "manage-community" ELSE "manage-business",
   action |-> "update", id |-> id, result |-> "pending"]

\* The page's latest call returns: its result is noted.
Returned(ok) ==
  [calls EXCEPT ![Len(calls)].result = IF ok THEN "ok" ELSE "error"]

InitPage ==
  /\ InitInv
  /\ InitDb
  /\ started = 0
  /\ last = None
  /\ kind \in {"communities", "businesses"}
  /\ PageMounted

\* handleEditCommunity / handleEditBusiness: the edit button of entity c.
\* The dialog is modal: the buttons of the list are out of reach while it is
\* open.
handleEdit(c) ==
  /\ c \in Entities(kind)
  /\ ~editDialogOpen
  /\ editing' = Some(c)
  /\ nameOk' = TRUE
  /\ editDialogOpen' = TRUE
  /\ UNCHANGED <<kind, pendingFile, pendingFor, saving, uploading, previewUrl,
                 reader, alerted, run, calls>>
  /\ UNCHANGED serverVars

\* Mutant: closing the dialog keeps the pending file.
onOpenChange_keepFile(open) ==
  /\ editDialogOpen
  /\ editDialogOpen' = open
  /\ IF ~open
       THEN /\ editing' = None
            /\ nameOk' = FALSE
            /\ previewUrl' = None
            /\ reader' = None
       ELSE UNCHANGED <<editing, nameOk, previewUrl, reader>>
  /\ UNCHANGED <<kind, pendingFile, pendingFor, saving, uploading, alerted, run, calls>>
  /\ UNCHANGED serverVars

\* The dialog's onOpenChange. Closing unmounts the dialog's content: the
\* ImageUpload's previewUrl is gone and a read in flight sets nothing.
onOpenChange(open) ==
  /\ editDialogOpen
  /\ editDialogOpen' = open
  /\ IF ~open
       THEN /\ editing' = None
            /\ nameOk' = FALSE
            /\ pendingFile' = None
            /\ pendingFor' = None
            /\ previewUrl' = None
            /\ reader' = None
       ELSE UNCHANGED <<editing, nameOk, pendingFile, pendingFor, previewUrl, reader>>
  /\ UNCHANGED <<kind, saving, uploading, alerted, run, calls>>
  /\ UNCHANGED serverVars

\* The name input: setName(e.target.value), ok when the text is not blank.
setName(ok) ==
  /\ editDialogOpen
  /\ nameOk' = ok
  /\ UNCHANGED <<kind, editDialogOpen, editing, pendingFile, pendingFor, saving,
                 uploading, previewUrl, reader, alerted, run, calls>>
  /\ UNCHANGED serverVars

\* ImageUpload.handleFileChange for the file the user picked.
handleFileChange(file) ==
  /\ editDialogOpen
  /\ IF rejection(file) # ""
       THEN /\ alerted' = rejection(file)
            /\ UNCHANGED <<pendingFile, pendingFor, reader>>
       ELSE /\ reader' = Some(file)
            /\ pendingFile' = Some(file)
            /\ pendingFor' = editing
            /\ UNCHANGED alerted
  /\ UNCHANGED <<kind, editDialogOpen, editing, nameOk, saving, uploading,
                 previewUrl, run, calls>>
  /\ UNCHANGED serverVars

\* reader.onloadend: setPreviewUrl(reader.result)
onloadend ==
  /\ reader # None
  /\ previewUrl' = reader
  /\ reader' = None
  /\ UNCHANGED <<kind, editDialogOpen, editing, nameOk, pendingFile, pendingFor,
                 saving, uploading, alerted, run, calls>>
  /\ UNCHANGED serverVars

\* ImageUpload.handleRemove: the preview is dropped and onImageRemove clears
\* the pending file.
handleRemove ==
  /\ editDialogOpen
  /\ previewUrl # None \/ pendingFile # None
  /\ previewUrl' = None
  /\ pendingFile' = None
  /\ pendingFor' = None
  /\ UNCHANGED <<kind, editDialogOpen, editing, nameOk, saving, uploading,
                 reader, alerted, run, calls>>
  /\ UNCHANGED serverVars

\* handleUpdateCommunity / handleUpdateBusiness up to its first await: the
\* Save button (disabled while saving or uploading). A blank name ends it
\* with a toast; else the upload of the pending file is issued, or with no
\* pending file the update.
handleUpdate ==
  /\ editDialogOpen
  /\ ~saving /\ ~uploading
  /\ Len(calls) < MaxCalls
  /\ editing # None /\ nameOk
  /\ saving' = TRUE
  /\ IF pendingFile # None
       THEN /\ uploading' = TRUE
            /\ calls' = Append(calls, UploadCall(Val(editing), Val(pendingFile), pendingFor))
            /\ run' = [at |-> "upload-image", editing |-> editing, file |-> pendingFile]
       ELSE /\ calls' = Append(calls, ManageCall(Val(editing)))
            /\ run' = [at |-> "manage", editing |-> editing, file |-> None]
            /\ UNCHANGED uploading
  /\ UNCHANGED <<kind, editDialogOpen, editing, nameOk, pendingFile, pendingFor,
                 previewUrl, reader, alerted>>
  /\ UNCHANGED serverVars

\* Mutant: the error of the upload is not looked at.
UploadReturned_ignoreError(ok) ==
  /\ run.at = "upload-image"
  /\ uploading' = FALSE
  /\ calls' = Append(Returned(ok), ManageCall(Val(run.editing)))
  /\ run' = [run EXCEPT !.at = "manage"]
  /\ UNCHANGED saving
  /\ UNCHANGED <<kind, editDialogOpen, editing, nameOk, pendingFile, pendingFor,
                 previewUrl, reader, alerted>>
  /\ UNCHANGED serverVars

\* The upload-image call returns: with an error (uploadError or
\* uploadData.error) the handler throws, toasts and runs its finally block;
\* else it issues the update for the editing target of its closure.
UploadReturned(ok) ==
  /\ run.at = "upload-image"
  /\ IF ok
       THEN /\ uploading' = FALSE
            /\ calls' = Append(Returned(ok), ManageCall(Val(run.editing)))
            /\ run' = [run EXCEPT !.at = "manage"]
            /\ UNCHANGED saving
       ELSE /\ saving' = FALSE
            /\ uploading' = FALSE
            /\ run' = NoRun
            /\ calls' = Returned(ok)
  /\ UNCHANGED <<kind, editDialogOpen, editing, nameOk, pendingFile, pendingFor,
                 previewUrl, reader, alerted>>
  /\ UNCHANGED serverVars

\* The update call returns: on success the dialog is closed and the form and
\* the pending file are cleared; then the finally block.
UpdateReturned(ok) ==
  /\ run.at = "manage"
  /\ IF ok
       THEN /\ editDialogOpen' = FALSE
            /\ editing' = None
            /\ nameOk' = FALSE
            /\ pendingFile' = None
            /\ pendingFor' = None
            /\ previewUrl' = None
            /\ reader' = None
       ELSE UNCHANGED <<editDialogOpen, editing, nameOk, pendingFile, pendingFor,
                        previewUrl, reader>>
  /\ saving' = FALSE
  /\ uploading' = FALSE
  /\ run' = NoRun
  /\ calls' = Returned(ok)
  /\ UNCHANGED <<kind, alerted>>
  /\ UNCHANGED serverVars

NextPage ==
  \/ \E c \in {s_C1, s_C2, s_B1, s_B2} : handleEdit(c)
  \/ onOpenChange(FALSE)
  \/ \E ok \in BOOLEAN : setName(ok)
  \/ \E file \in PageFiles : handleFileChange(file)
  \/ onloadend
  \/ handleRemove
  \/ handleUpdate
  \/ \E ok \in BOOLEAN : UploadReturned(ok)
  \/ \E ok \in BOOLEAN : UpdateReturned(ok)

SpecPage == InitPage /\ [][NextPage]_vars

\* The page's latest call.
LastCall == calls[Len(calls)]

\* C25: a save with a pending file issues the upload-image call first, and
\* the manage-community / manage-business update only once the upload has
\* returned without error; when the upload fails the handler issues no
\* update, leaves the dialog open state, the pending file and the editing
\* target as they are, and finishes with saving and uploading both false.
C25_SaveSequence ==
  /\ [] /\ run.at = "upload-image"
             => /\ LastCall.fn = "upload-image" /\ LastCall.result = "pending"
                /\ \A k \in 1..Len(calls) - 1 : calls[k].result # "pending"
        /\ (run.at = "manage" /\ run.file # None)
             => /\ Len(calls) >= 2
                /\ LastCall.fn \in {"manage-community", "manage-business"}
                /\ LastCall.id = Val(run.editing)
                /\ calls[Len(calls) - 1].fn = "upload-image"
                /\ calls[Len(calls) - 1].result = "ok"
                /\ calls[Len(calls) - 1].entity_id = Val(run.editing)
                /\ calls[Len(calls) - 1].file = Val(run.file)
  /\ [][ /\ (run.at = "idle" /\ run'.at # "idle" /\ pendingFile # None)
              => /\ run'.at = "upload-image"
                 /\ calls' = Append(calls, calls'[Len(calls')])
                 /\ calls'[Len(calls')].fn = "upload-image"
         /\ (run.at = "upload-image" /\ run'.at = "idle")
              => /\ calls'[Len(calls')].result = "error"
                 /\ Len(calls') = Len(calls)
                 /\ UNCHANGED <<editDialogOpen, pendingFile, editing>>
                 /\ ~saving' /\ ~uploading'
         /\ (run.at # "idle" /\ run'.at = "idle") => ~saving' /\ ~uploading'
       ]_vars

\* On the businesses page the upload of a save has failed: no update was
\* issued, the dialog is open with the file still pending, and the flags are
\* false.
C25_Witness ==
  /\ kind = "businesses"
  /\ Len(calls) = 1
  /\ LastCall.fn = "upload-image" /\ LastCall.result = "error"
  /\ run = NoRun
  /\ editDialogOpen /\ pendingFile # None /\ editing = Some(s_B1)
  /\ ~saving /\ ~uploading

\* C26: over every sequence of opening the dialog, selecting or removing a
\* file, saving and closing, each upload-image call carries as entity_id the
\* entity that was being edited when its file was selected; the pending
\* file is always one selected for the entity being edited, there is none
\* while the dialog is closed, and a save that succeeds clears it.
C26_NoCrossEntityUpload ==
  /\ [] /\ \A k \in 1..Len(calls) :
             calls[k].fn = "upload-image"
               => calls[k].selectedFor = Some(calls[k].entity_id)
        /\ pendingFile # None => (pendingFor = editing /\ editing # None)
        /\ ~editDialogOpen => pendingFile = None
  /\ [][ /\ (editDialogOpen /\ ~editDialogOpen') => pendingFile' = None
         /\ (run.at = "manage" /\ run'.at = "idle"
               /\ calls'[Len(calls')].result = "ok") => pendingFile' = None
       ]_vars

\* The upload of a file selected for community C1 failed; the dialog was
\* closed, C2 was edited, and an upload for C2 was issued with a file
\* selected for C2.
C26_Witness ==
  /\ Len(calls) = 2
  /\ calls[1].fn = "upload-image" /\ calls[1].entity_id = s_C1
  /\ calls[1].result = "error"
  /\ calls[2].fn = "upload-image" /\ calls[2].entity_id = s_C2
  /\ calls[2].selectedFor = Some(s_C2)

\* Files of every content type and size the checks distinguish.
TypedFiles ==
  { File(s_photo_png, size, type, "b1") :
      size \in {0, 2000000, 5242880, 5242881},
      type \in {"image/jpeg", "image/png", "image/gif", "image/webp",
                "image/svg+xml", "image/bmp", ""} }

\* C27: ImageUpload.handleFileChange accepts a file exactly when the
\* endpoint's size and content-type checks both pass, that is when the type
\* is one of image/jpeg, image/png, image/gif, image/webp and the size is at
\* most 5,242,880, though the client tests the type first and the endpoint
\* the size first; a file the client rejects is not handed to onImageSelect
\* and leaves the pending file and the preview as they were, so the pending
\* file is always one the endpoint's checks accept.
C27_SameFilesAccepted ==
  /\ [] /\ \A f \in TypedFiles :
             /\ rejection(f) = "" <=> (~fileTooLarge(f) /\ ~typeNotAllowed(f))
             /\ rejection(f) = ""
                  <=> /\ f.type \in {"image/jpeg", "image/png", "image/gif", "image/webp"}
                      /\ f.size <= 5242880
             /\ (fileTooLarge(f) /\ typeNotAllowed(f))
                  => /\ rejection(f) = "Please select a valid image file (JPEG, PNG, GIF, or WebP)"
                     /\ validation(Post("t1", f, "communities", s_C1, s_cover))
                          = Some(ErrorJson(400, "File must be less than 5MB"))
        /\ \A s \in {pendingFile, reader, previewUrl} :
             s # None => ~fileTooLarge(Val(s)) /\ ~typeNotAllowed(Val(s))
  /\ [][ alerted' # alerted
           => UNCHANGED <<pendingFile, pendingFor, previewUrl, reader, calls>>
       ]_vars

\* A file of exactly 5 MiB was accepted and is shown; a later file was
\* rejected for its size and the selection is still the first file.
C27_Witness ==
  /\ alerted = "File size must be less than 5MB"
  /\ pendingFile # None
  /\ Val(pendingFile).size = 5242880
  /\ previewUrl = pendingFile

\* C28: no step removes a stored object or empties an image column: the set
\* of object paths of each bucket only grows, and an image column of a row
\* that holds an address holds an address after every step the row is still
\* there.
C28_NeverRemoves ==
  [][ /\ \A b \in validBuckets : DOMAIN storage[b] \subseteq DOMAIN storage'[b]
      /\ \A id \in DOMAIN communities \cap DOMAIN communities' :
           /\ communities[id].cover_image_url # NoUrl
                => communities'[id].cover_image_url # NoUrl
           /\ communities[id].logo_url # NoUrl
                => communities'[id].logo_url # NoUrl
      /\ \A id \in DOMAIN businesses \cap DOMAIN businesses' :
           /\ businesses[id].cover_image_url # NoUrl
                => businesses'[id].cover_image_url # NoUrl
           /\ businesses[id].logo_url # NoUrl
                => businesses'[id].logo_url # NoUrl
    ]_vars

\* After three successful uploads the store holds two covers of C1 and the
\* logo of B1, and both columns hold an address.
C28_Witness ==
  /\ Cardinality(DOMAIN storage["communities"]) = 2
  /\ Cardinality(DOMAIN storage["businesses"]) = 1
  /\ s_C1 \in DOMAIN communities
  /\ communities[s_C1].cover_image_url # NoUrl
  /\ businesses[s_B1].logo_url # NoUrl

====
